---- MODULE Spec2Model ----
(***************************************************************************)
(* Mini-Lop: the fuzzing loop of main.py (run_fuzzing), the scheduler of   *)
(* schedule.py, the coverage and crash classification of feedback.py and   *)
(* the operator bandit and mutators of mutation.py.                        *)
(*                                                                         *)
(* Execution times are integer clock ticks; avg_exec_time is kept as the   *)
(* fraction <<numerator, denominator>>.  File contents are abstracted to   *)
(* their length and provenance.  The target (run_target and the shared     *)
(* coverage map it fills) is the environment: each run draws a status, an  *)
(* elapsed time and a set of hit edges.                                    *)
(***************************************************************************)
EXTENDS Integers, Sequences, FiniteSets, TLC

\* ---------------------------------------------------------------- bounds
MaxFiles == 2      \* corpus files listed by the dry run
MaxStep == 1       \* iterations of each mutation loop explored one by one
MaxExec == 103     \* cap on exec_count
MaxLongExec == 203 \* cap on exec_count of the sessions followed through two loops
MaxCrashes == 2    \* crashing runs per session

MaxStatus == 600   \* largest status handed to check_crash on its own
MaxTime == 3       \* largest seed.exec_time handed to get_power_schedule on its own
MaxTotal == 4      \* largest total_exec_time behind its average
MaxCount == 4      \* largest exec_count behind its average
MaxCoverage == 240 \* largest len(seed.coverage) handed to it
MaxRewards == 3    \* largest small reward total handed to select_operator on its own
MaxUses == 3       \* largest small use count handed to it
MaxOpCrashes == 1  \* largest crash count of an operator handed to it
MaxIndex == 2      \* last index of a coverage map handed to check_coverage on its own
MaxCalls == 2      \* calls of check_coverage on the same map
MaxSize == 9       \* largest seed file handed to SpliceMutator.mutate on its own

Edges == {0, 1}        \* indices of the coverage map the target can hit
DryTimes == {2}        \* elapsed ticks of a corpus replay
FuzzTimes == {1}       \* elapsed ticks of a mutated run
Sizes == {2, 8}        \* lengths in bytes of the corpus files
Statuses == {0, 9, 139} \* normal exit, timeout sentinel, SIGSEGV with core dump

\* what a run of the target returns: its status and the edges it hit; a run
\* that is killed or crashes is drawn with every edge hit (its map is never
\* read by run_fuzzing, and a full map is the case in which saving it as a
\* seed would show)
RunResults ==
    { <<status, bits>> \in Statuses \X SUBSET Edges :
          status = 0 \/ bits = Edges }
Operators == {"havoc", "splice"}

NoPath == <<"none", 0>>

VARIABLES
    pc,                  \* position in run_fuzzing
    step,                \* the statement block executed last
    seed_files,          \* number of files listed in queue_folder
    i,                   \* dry-run loop index
    seed_queue,
    global_coverage,
    edge_to_seeds,
    seeds_used_in_cycle,
    cycle_seed_count,
    cycle_count,
    total_exec_time,
    exec_count,
    avg_exec_time,
    selected_seed,       \* position in seed_queue of the selected seed, 0 for None
    new_cycle,
    power_schedule,
    remaining,           \* iterations of the mutation for-loop still to run
    operator,
    status_code,
    trace_bits,          \* edges whose byte in the shared map is non-zero
    current_input,       \* the file at conf['current_input']
    mutation_strategy,   \* the bandit counters
    crashes_folder,      \* file names in conf['crashes_folder']
    now,                 \* last int(time.time()) read by save_crash_input, in
                         \* seconds since the first crash
    fn_args,             \* arguments of a function called on its own
    fn_ret,              \* what that call returned
    read_bytes,          \* len(read_bytes) of the fork-server handshake
    shm_segment          \* whether the segment made by setup_shm exists

vars == <<pc, step, seed_files, i, seed_queue, global_coverage, edge_to_seeds,
          seeds_used_in_cycle, cycle_seed_count, cycle_count, total_exec_time,
          exec_count, avg_exec_time, selected_seed, new_cycle, power_schedule,
          remaining, operator, status_code, trace_bits, current_input,
          mutation_strategy, crashes_folder, now, fn_args, fn_ret, read_bytes,
          shm_segment>>

\* what main() and the handshake leave behind
main_vars == <<read_bytes, shm_segment>>

\* the state of run_fuzzing but its position
run_fuzzing_vars ==
    <<step, seed_files, i, seed_queue, global_coverage, edge_to_seeds,
      seeds_used_in_cycle, cycle_seed_count, cycle_count, total_exec_time,
      exec_count, avg_exec_time, selected_seed, new_cycle, power_schedule,
      remaining, operator, status_code, trace_bits, current_input,
      mutation_strategy, crashes_folder, now>>

\* ------------------------------------------------------------ seed.py
\* a seed born with its favored flag set
Seed_born_favored(path, seed_id, coverage, exec_time, file_size) ==
    [path |-> path, seed_id |-> seed_id, coverage |-> coverage,
     exec_time |-> exec_time, file_size |-> file_size, favored |-> TRUE]

\* Seed.__init__: the favored flag starts False
Seed(path, seed_id, coverage, exec_time, file_size) ==
    [path |-> path, seed_id |-> seed_id, coverage |-> coverage,
     exec_time |-> exec_time, file_size |-> file_size, favored |-> FALSE]

get_valuation(s) == s.exec_time * s.file_size

\* --------------------------------------------------------- feedback.py
crash_signals == {1, 2, 3, 4, 6, 7, 8, 9, 11, 13, 14, 15, 24, 25, 31}

\* a classification that forgets the core-dump flag
check_crash_signal_only(status) == (status % 128) \in crash_signals

check_crash(status) ==
    LET is_core_dump == ((status \div 128) % 2) # 0
        actual_signal == status % 128
    IN  actual_signal \in crash_signals \/ is_core_dump

\* ctypes.string_at(trace_bits, MAP_SIZE) for a map whose non-zero bytes are
\* those of the edges in bits
string_at(bits) == [idx \in Edges |-> IF idx \in bits THEN 1 ELSE 0]

\* the indices of the non-zero bytes of the map
current_coverage(raw_bitmap) ==
    { idx \in DOMAIN raw_bitmap : raw_bitmap[idx] # 0 }

\* a check_coverage that reports any hit edge as new
check_coverage_nonempty(raw_bitmap, global) ==
    <<current_coverage(raw_bitmap) # {}, current_coverage(raw_bitmap)>>

\* a check_coverage that returns the new edges alone
check_coverage_new_only(raw_bitmap, global) ==
    <<current_coverage(raw_bitmap) \ global # {}, current_coverage(raw_bitmap) \ global>>

\* check_coverage returns <<new_edge_covered, current_coverage>>
check_coverage(raw_bitmap, global) ==
    LET new_edges == current_coverage(raw_bitmap) \ global
    IN  <<new_edges # {}, current_coverage(raw_bitmap)>>

\* ------------------------------------------------------------- main.py
\* a merge that forgets the update
merge_dropped(global, edges) == global

\* global_coverage.update(seed_coverage)
merge(global, edges) == global \cup edges

\* an index loop that only creates the list of an edge seen for the first time
index_seed_first_only(e2s, coverage, id) ==
    [e \in Edges |-> IF e \in coverage /\ e2s[e] = <<>> THEN <<id>> ELSE e2s[e]]

\* the "for edge in seed_coverage: edge_to_seeds[edge].append(id)" loop
index_seed(e2s, coverage, id) ==
    [e \in Edges |-> IF e \in coverage THEN Append(e2s[e], id) ELSE e2s[e]]

\* a classification that applies check_crash before the timeout test
RunOutcome_crash_first(status) ==
    IF check_crash(status) THEN "crash"
    ELSE IF status = 9 THEN "timeout"
    ELSE "ok"

\* a classification that only knows the timeout sentinel
RunOutcome_timeout_only(status) ==
    IF status = 9 THEN "timeout" ELSE "ok"

\* classification of a run's status in the order the loops test it
RunOutcome(status) ==
    IF status = 9 THEN "timeout"
    ELSE IF check_crash(status) THEN "crash"
    ELSE "ok"

\* update_favored_seeds: seed_queue[seed_id] raises IndexError when an id
\* stored in the index is not a position of the queue.  Nothing catches it:
\* the session ends there, after the loop that unmarks every seed
FavoredRaises(q, e2s) ==
    \E e \in Edges : \E k \in 1..Len(e2s[e]) : e2s[e][k] >= Len(q)

\* position in ids of seeds[0] after the stable sort by valuation
FirstMin(q, ids) ==
    CHOOSE k \in 1..Len(ids) :
        \A j \in 1..Len(ids) :
            \/ get_valuation(q[ids[k] + 1]) < get_valuation(q[ids[j] + 1])
            \/ /\ get_valuation(q[ids[k] + 1]) = get_valuation(q[ids[j] + 1])
               /\ k <= j

update_favored_seeds(q, e2s) ==
    LET marked == { e2s[e][FirstMin(q, e2s[e])] + 1 :
                        e \in { x \in Edges : Len(e2s[x]) > 0 } }
    IN  [k \in 1..Len(q) |-> [q[k] EXCEPT !.favored = (k \in marked)]]

unmark_all(q) == [k \in 1..Len(q) |-> [q[k] EXCEPT !.favored = FALSE]]

\* --------------------------------------------------------- schedule.py
\* an emptiness test that never fires
queue_is_empty_never(q) == FALSE

\* "if not seed_queue"
queue_is_empty(q) == Len(q) = 0

\* an unused list that ignores the used set
unused_seeds_all(q, used) == 1..Len(q)

\* positions of the seeds whose id is not in the used set
unused_seeds(q, used) == { k \in 1..Len(q) : q[k].seed_id \notin used }

unused_favored(q, used) == { k \in unused_seeds(q, used) : q[k].favored }

\* "len(seeds_used_in_cycle) >= cycle_seed_count"
cycle_is_over(used, count) == Cardinality(used) >= count

\* the seeds random.choice may return: unused_favored with probability 0.9
\* when it is non-empty, unused_seeds otherwise
select_choices(q, used) ==
    IF unused_favored(q, used) # {}
    THEN unused_favored(q, used) \cup unused_seeds(q, used)
    ELSE unused_seeds(q, used)

\* ------------------------------------------------ Python float arithmetic
\* A float is <<m, e>>, the value m * 2^e, with m a natural kept as the
\* little-endian sequence of its digits in base Base (TLC's integers are 32
\* bits wide, a double's mantissa is 53).  Every operation rounds its exact
\* result to 53 significant bits, ties to even, as IEEE 754 binary64 does; the
\* values met here are far from the overflow and subnormal ranges.
Base == 32768

Min(a, b) == IF a < b THEN a ELSE b
Max(a, b) == IF a > b THEN a ELSE b

RECURSIVE Digits(_)
Digits(n) == IF n = 0 THEN <<>> ELSE <<n % Base>> \o Digits(n \div Base)

RECURSIVE Trim(_)
Trim(a) ==
    IF a # <<>> /\ a[Len(a)] = 0 THEN Trim(SubSeq(a, 1, Len(a) - 1)) ELSE a

Digit(a, k) == IF k <= Len(a) THEN a[k] ELSE 0

\* the digits of a + b + carry from position k on, given their sum s there
RECURSIVE AddFrom(_, _, _, _)
AddFrom(a, b, k, s) ==
    IF k > Len(a) /\ k > Len(b)
    THEN IF s = 0 THEN <<>> ELSE <<s>>
    ELSE <<s % Base>> \o
         AddFrom(a, b, k + 1, Digit(a, k + 1) + Digit(b, k + 1) + s \div Base)

Add(a, b) == AddFrom(a, b, 1, Digit(a, 1) + Digit(b, 1))

\* the digits of a - b from position k on, for a >= b, given their difference
\* s there
RECURSIVE SubFrom(_, _, _, _)
SubFrom(a, b, k, s) ==
    IF k > Len(a) THEN <<>>
    ELSE <<s % Base>> \o
         SubFrom(a, b, k + 1,
                 Digit(a, k + 1) - Digit(b, k + 1) - (IF s < 0 THEN 1 ELSE 0))

Sub(a, b) == Trim(SubFrom(a, b, 1, Digit(a, 1) - Digit(b, 1)))

\* -1, 0 or 1 as a < b, a = b or a > b
RECURSIVE CmpFrom(_, _, _)
CmpFrom(a, b, k) ==
    IF k = 0 THEN 0
    ELSE IF a[k] < b[k] THEN -1
    ELSE IF a[k] > b[k] THEN 1
    ELSE CmpFrom(a, b, k - 1)

Cmp(a, b) ==
    IF Len(a) < Len(b) THEN -1
    ELSE IF Len(a) > Len(b) THEN 1
    ELSE CmpFrom(a, b, Len(a))

\* the digits of a * d from position k on, given the product p there
RECURSIVE MulSmallFrom(_, _, _, _)
MulSmallFrom(a, d, k, p) ==
    IF k > Len(a)
    THEN IF p = 0 THEN <<>> ELSE <<p>>
    ELSE <<p % Base>> \o
         MulSmallFrom(a, d, k + 1, Digit(a, k + 1) * d + p \div Base)

\* a * d for a digit d
MulSmall(a, d) == Trim(MulSmallFrom(a, d, 1, Digit(a, 1) * d))

RECURSIVE MulFrom(_, _, _)
MulFrom(a, b, k) ==
    IF k > Len(b) THEN <<>>
    ELSE Add(MulSmall(a, b[k]), <<0>> \o MulFrom(a, b, k + 1))

Mul(a, b) == Trim(MulFrom(a, b, 1))

\* a * 2^k
Shl(a, k) ==
    IF a = <<>> THEN <<>>
    ELSE [j \in 1..(k \div 15) |-> 0] \o MulSmall(a, 2^(k % 15))

\* number of significant bits of a > 0
BitLen(a) ==
    15 * (Len(a) - 1) +
    (CHOOSE j \in 1..15 : 2^(j - 1) <= a[Len(a)] /\ a[Len(a)] < 2^j)

\* the largest digit q with q * d <= r, for r < Base * d and a divisor d whose
\* top digit is at least Base / 2: the quotient of the top digits is at most
\* two too large
RECURSIVE QFix(_, _, _)
QFix(r, d, q) ==
    IF q = 0 \/ Cmp(MulSmall(d, q), r) <= 0 THEN q ELSE QFix(r, d, q - 1)

QDigit(r, d) ==
    QFix(r, d, Min((Digit(r, Len(d) + 1) * Base + Digit(r, Len(d))) \div d[Len(d)],
                   Base - 1))

\* one step of the long division: the next digit q of the quotient is put in
\* front of quot, and r becomes r - q * d
DivDigit(quot, r, d, q) == << <<q>> \o quot, Sub(r, MulSmall(d, q)) >>

\* the next remainder: the one before with the digit k of a brought down
BringDown(a, k, r) == Trim(<<a[k]>> \o r)

\* numbers and floats as values: the operations below are functions, applied
\* to the values of their arguments
Numbers == Seq(0..(Base - 1))
Floats == Numbers \X Int

\* the digits k..1 of a brought down one by one after qr = <<quotient,
\* remainder>> of the digits above them
DivFrom[a \in Numbers, d \in Numbers, k \in Nat, qr \in Numbers \X Numbers] ==
    IF k = 0 THEN qr
    ELSE DivFrom[a, d, k - 1,
                 DivDigit(qr[1], BringDown(a, k, qr[2]), d,
                          QDigit(BringDown(a, k, qr[2]), d))]

\* <<a div d, a mod d>> for a divisor whose top digit is at least Base / 2
DivMod(a, d) == DivFrom[a, d, Len(a), <<<<>>, <<>>>>]

\* the shift that brings the top digit of a number of b bits to Base / 2
Normalise(b) == (15 - (b % 15)) % 15

\* the quotient qr[1] rounded to nearest, ties to even, by its remainder qr[2]
RoundQuot[qr \in Numbers \X Numbers, den \in Numbers, e \in Int] ==
    <<IF \/ Cmp(Shl(qr[2], 1), den) > 0
         \/ Cmp(Shl(qr[2], 1), den) = 0 /\ Digit(qr[1], 1) % 2 = 1
      THEN Add(Trim(qr[1]), <<1>>) ELSE Trim(qr[1]),
      e>>

\* n * 2^k / d has 53 bits before the point; t more bits normalise the divisor
RoundAt[n \in Numbers, d \in Numbers, e \in Int, k \in Int, t \in Nat] ==
    RoundQuot[DivMod(Shl(n, Max(k, 0) + t), Shl(d, Max(-k, 0) + t)),
              Shl(d, Max(-k, 0) + t), e - k]

\* the k with 2^52 <= n * 2^k / d < 2^53, which is k0 or k0 - 1
Shift(n, d, k0) ==
    IF Cmp(Shl(n, Max(k0, 0)), Shl(d, Max(-k0, 0) + 53)) >= 0
    THEN k0 - 1 ELSE k0

RoundTo[n \in Numbers, d \in Numbers, e \in Int, k \in Int] ==
    RoundAt[n, d, e, k, Normalise(BitLen(d) + Max(-k, 0))]

\* the float nearest to n / d * 2^e, ties to even
Round[n \in Numbers, d \in Numbers, e \in Int] ==
    IF n = <<>> THEN <<<<>>, 0>>
    ELSE IF d = <<1>> /\ BitLen(n) <= 53 THEN <<n, e>>
    ELSE RoundTo[n, d, e, Shift(n, d, 53 - (BitLen(n) - BitLen(d)))]

\* float(n) for a natural n
FloatOf(n) == <<Digits(n), 0>>

float_div[x \in Floats, y \in Floats] == Round[x[1], y[1], x[2] - y[2]]

float_mul[x \in Floats, y \in Floats] == Round[Mul(x[1], y[1]), <<1>>, x[2] + y[2]]

\* x as a multiple of 2^e
Aligned(x, e) == Shl(x[1], x[2] - e)

float_add[x \in Floats, y \in Floats] ==
    Round[Add(Aligned(x, Min(x[2], y[2])), Aligned(y, Min(x[2], y[2]))),
          <<1>>, Min(x[2], y[2])]

\* -1, 0 or 1 as x < y, x = y or x > y
float_cmp[x \in Floats, y \in Floats] ==
    Cmp(Aligned(x, Min(x[2], y[2])), Aligned(y, Min(x[2], y[2])))

\* min(x, y) and max(x, y) of Python: the first argument unless the second is
\* strictly smaller (larger)
float_min[x \in Floats, y \in Floats] == IF float_cmp[y, x] < 0 THEN y ELSE x
float_max[x \in Floats, y \in Floats] == IF float_cmp[y, x] > 0 THEN y ELSE x

\* int(x) for x >= 0, as digits
float_int[x \in Floats] ==
    IF x[2] >= 0 THEN Shl(x[1], x[2])
    ELSE Trim(DivMod(Shl(x[1], Normalise(1 - x[2])),
                     Shl(<<1>>, Normalise(1 - x[2]) - x[2]))[1])

RECURSIVE ToInt(_)
ToInt(a) == IF a = <<>> THEN 0 ELSE a[1] + Base * ToInt(Tail(a))

max_mutations == 1000

\* min(max(time_factor, 0.1), 3.0) of avg_exec_time / seed.exec_time, where
\* avg is the pair <<total_exec_time, exec_count>> whose quotient the caller
\* computed
time_factor(exec_time, avg) ==
    float_min[float_max[float_div[float_div[FloatOf(avg[1]), FloatOf(avg[2])],
                                  FloatOf(exec_time)],
                        float_div[FloatOf(1), FloatOf(10)]],
              FloatOf(3)]

\* perf_score after the execution-time adjustment
time_score(seed, avg) ==
    IF seed.exec_time > 0 /\ avg[1] > 0
    THEN float_mul[FloatOf(100), time_factor(seed.exec_time, avg)]
    ELSE FloatOf(100)

\* 1 + (len(seed.coverage) / 100)
coverage_factor(seed) ==
    float_add[FloatOf(1), float_div[FloatOf(Cardinality(seed.coverage)), FloatOf(100)]]

\* max(mutations, 1) alone, the cap of 1000 left out
clamp_mutations_uncapped(mutations) == Max(ToInt(mutations), 1)

\* min(mutations, max_mutations), then max(mutations, 1)
clamp_mutations(mutations) ==
    Max(IF Cmp(mutations, Digits(max_mutations)) > 0
        THEN max_mutations ELSE ToInt(mutations),
        1)

get_power_schedule(seed, avg) ==
    clamp_mutations(
        float_int[float_mul[float_div[float_mul[time_score(seed, avg),
                                                coverage_factor(seed)],
                                      FloatOf(100)],
                            FloatOf(100)]])

\* --------------------------------------------------------- mutation.py
\* HavocMutator.mutate: a seed file shorter than 8 bytes is left alone and
\* nothing is written; with no dictionary every operator keeps the length
havoc_mutate_any_size(ci, seed) ==
    [size |-> seed.file_size, origin |-> seed.path, by |-> "havoc"]

havoc_mutate(ci, seed) ==
    IF seed.file_size < 8 THEN ci
    ELSE [size |-> seed.file_size, origin |-> seed.path, by |-> "havoc"]

other_seeds(seed, q) == { k \in 1..Len(q) : q[k].seed_id # seed.seed_id }

\* random.choice(other_seeds) on an empty list
splice_raises(seed, q) == Len(q) >= 2 /\ other_seeds(seed, q) = {}

\* SpliceMutator.mutate: the contents current_input may have afterwards
splice_mutate(ci, seed, q) ==
    IF Len(q) < 2 THEN { havoc_mutate(ci, seed) }
    ELSE UNION { IF seed.file_size < 4 \/ q[o].file_size < 4
                 THEN { havoc_mutate(ci, seed) }
                 ELSE { havoc_mutate([size |-> p1 + (q[o].file_size - p2),
                                      origin |-> seed.path, by |-> "splice"], seed) :
                            p1 \in 1..(seed.file_size - 2),
                            p2 \in 1..(q[o].file_size - 2) } :
                 o \in other_seeds(seed, q) }

mutate(op, ci, seed, q) ==
    IF op = "havoc" THEN { havoc_mutate(ci, seed) } ELSE splice_mutate(ci, seed, q)

MutationStrategy ==
    [havoc_rewards |-> 0, splice_rewards |-> 0, havoc_uses |-> 0,
     splice_uses |-> 0, havoc_crashes |-> 0, splice_crashes |-> 0]

\* (rewards + crashes * 10) / max(1, uses), a float
operator_score(rewards, crashes, uses) ==
    float_div[FloatOf(rewards + crashes * 10), FloatOf(Max(1, uses))]

havoc_score(ms) == operator_score(ms.havoc_rewards, ms.havoc_crashes, ms.havoc_uses)

splice_score(ms) == operator_score(ms.splice_rewards, ms.splice_crashes, ms.splice_uses)

\* the exploitation branch with > for >=
best_operator_strict(ms) ==
    IF float_cmp[havoc_score(ms), splice_score(ms)] > 0 THEN "havoc" ELSE "splice"

\* the exploitation branch
best_operator(ms) ==
    IF float_cmp[havoc_score(ms), splice_score(ms)] >= 0 THEN "havoc" ELSE "splice"

\* the operators select_operator may return: either one when exploring
select_operator(ms) == Operators \cup { best_operator(ms) }

update_rewards(ms, op, new_coverage, crashed) ==
    IF op = "havoc"
    THEN [ms EXCEPT !.havoc_uses = @ + 1,
                    !.havoc_rewards = @ + new_coverage,
                    !.havoc_crashes = IF crashed THEN @ + 1 ELSE @]
    ELSE [ms EXCEPT !.splice_uses = @ + 1,
                    !.splice_rewards = @ + new_coverage,
                    !.splice_crashes = IF crashed THEN @ + 1 ELSE @]

\* int(time.time()) at a crash: the clock does not run backwards, and file
\* names only tell whether two crashes fall in the same second
clock_readings(folder, last) == IF folder = {} THEN {last} ELSE {last, last + 1}

\* save_crash_input: crash_<timestamp>_<basename of the seed's path>
crash_filename(timestamp, seed_path) == <<"crash", timestamp, seed_path>>

\* ------------------------------------------------------------- run_fuzzing
\* run_fuzzing after a handshake of 4 bytes, on the segment main() created
Init ==
    /\ pc = "dry_run"
    /\ step = "init"
    /\ seed_files \in 0..MaxFiles
    /\ i = 0
    /\ seed_queue = <<>>
    /\ global_coverage = {}
    /\ edge_to_seeds = [e \in Edges |-> <<>>]
    /\ seeds_used_in_cycle = {}
    /\ cycle_seed_count = 0
    /\ cycle_count = 0
    /\ total_exec_time = 0
    /\ exec_count = 0
    /\ avg_exec_time = <<0, 1>>
    /\ selected_seed = 0
    /\ new_cycle = FALSE
    /\ power_schedule = 0
    /\ remaining = 0
    /\ operator = "none"
    /\ status_code = 0
    /\ trace_bits = {}
    /\ current_input = [size |-> 0, origin |-> NoPath, by |-> "none"]
    /\ mutation_strategy = MutationStrategy
    /\ crashes_folder = {}
    /\ now = 0
    /\ fn_args = <<>>
    /\ fn_ret = <<>>
    /\ read_bytes = 4
    /\ shm_segment = TRUE

\* one iteration of the dry-run loop over the corpus files
DryRunSeed ==
    /\ pc = "dry_run"
    /\ i < seed_files
    /\ \E size \in Sizes, result \in RunResults, exec_time \in DryTimes :
        LET seed_path == <<"corpus", i>>
            status == result[1]
            bits == result[2]
        IN
        /\ current_input' = [size |-> size, origin |-> seed_path, by |-> "copy"]
        /\ status_code' = status
        /\ trace_bits' = bits
        /\ IF RunOutcome(status) # "ok"
           THEN UNCHANGED <<seed_queue, global_coverage, edge_to_seeds,
                            total_exec_time, exec_count>>
           ELSE LET seed_coverage == check_coverage(string_at(bits), global_coverage)[2] IN
                /\ global_coverage' = merge(global_coverage, seed_coverage)
                /\ edge_to_seeds' = index_seed(edge_to_seeds, seed_coverage, i)
                /\ seed_queue' = Append(seed_queue,
                                        Seed(seed_path, i, seed_coverage, exec_time, size))
                /\ total_exec_time' = total_exec_time + exec_time
                /\ exec_count' = exec_count + 1
    /\ i' = i + 1
    /\ step' = "dry_seed"
    /\ UNCHANGED <<pc, seed_files, seeds_used_in_cycle, cycle_seed_count, cycle_count,
                   avg_exec_time, selected_seed, new_cycle, power_schedule, remaining,
                   operator, mutation_strategy, crashes_folder, now>>
    /\ UNCHANGED <<fn_args, fn_ret, main_vars>>

\* the end of the dry run: average time, first favored pass, cycle tracking
DryRunEnd ==
    /\ pc = "dry_run"
    /\ i = seed_files
    /\ avg_exec_time' = IF exec_count > 0 THEN <<total_exec_time, exec_count>>
                        ELSE <<1, 10>>
    /\ IF FavoredRaises(seed_queue, edge_to_seeds)
       THEN /\ pc' = "raise_update_favored_seeds"
            /\ seed_queue' = unmark_all(seed_queue)
            /\ UNCHANGED <<seeds_used_in_cycle, cycle_seed_count, cycle_count>>
       ELSE /\ pc' = "select"
            /\ seed_queue' = update_favored_seeds(seed_queue, edge_to_seeds)
            /\ seeds_used_in_cycle' = {}
            /\ cycle_seed_count' = Len(seed_queue)
            /\ cycle_count' = 0
    /\ step' = "dry_end"
    /\ UNCHANGED <<seed_files, i, global_coverage, edge_to_seeds, total_exec_time,
                   exec_count, selected_seed, new_cycle, power_schedule, remaining,
                   operator, status_code, trace_bits, current_input,
                   mutation_strategy, crashes_folder, now>>
    /\ UNCHANGED <<fn_args, fn_ret, main_vars>>

\* select_next_seed and the caller's new-cycle bookkeeping, then the power
\* schedule of the selected seed
SelectSeed ==
    /\ pc = "select"
    /\ step' = "select"
    /\ IF queue_is_empty(seed_queue)
       THEN /\ selected_seed' = 0
            /\ new_cycle' = FALSE
            /\ pc' = "no_seeds"
            /\ UNCHANGED <<seed_queue, seeds_used_in_cycle, cycle_seed_count,
                           cycle_count, power_schedule, remaining>>
       ELSE LET over == cycle_is_over(seeds_used_in_cycle, cycle_seed_count)
                used == IF over THEN {} ELSE seeds_used_in_cycle
                count == IF over THEN Len(seed_queue) ELSE cycle_seed_count
            IN  IF unused_seeds(seed_queue, used) = {}
                THEN \* random.choice(unused_seeds) raises IndexError
                     /\ pc' = "raise_select_next_seed"
                     /\ seeds_used_in_cycle' = used
                     /\ UNCHANGED <<seed_queue, cycle_seed_count, cycle_count,
                                    selected_seed, new_cycle, power_schedule, remaining>>
                ELSE \E k \in select_choices(seed_queue, used) :
                     /\ seeds_used_in_cycle' = used \cup {seed_queue[k].seed_id}
                     /\ cycle_seed_count' = count
                     /\ new_cycle' = over
                     /\ selected_seed' = k
                     /\ cycle_count' = IF over THEN cycle_count + 1 ELSE cycle_count
                     /\ IF over /\ FavoredRaises(seed_queue, edge_to_seeds)
                        THEN /\ pc' = "raise_update_favored_seeds"
                             /\ seed_queue' = unmark_all(seed_queue)
                             /\ UNCHANGED <<power_schedule, remaining>>
                        ELSE /\ pc' = "fuzz"
                             /\ seed_queue' =
                                  IF over
                                  THEN update_favored_seeds(seed_queue, edge_to_seeds)
                                  ELSE seed_queue
                             /\ power_schedule' =
                                  get_power_schedule(seed_queue[k], avg_exec_time)
                             /\ remaining' = power_schedule'
    /\ UNCHANGED <<seed_files, i, global_coverage, edge_to_seeds, total_exec_time,
                   exec_count, avg_exec_time, operator, status_code, trace_bits,
                   current_input, mutation_strategy, crashes_folder, now>>
    /\ UNCHANGED <<fn_args, fn_ret, main_vars>>

Crashes(ms) == ms.havoc_crashes + ms.splice_crashes

\* one iteration of the mutation for-loop: select the operator, mutate, run
\* the target, classify the run
FuzzOneWithin(max_exec) ==
    /\ pc = "fuzz"
    /\ remaining > 0
    /\ power_schedule - remaining < MaxStep
    /\ exec_count < max_exec
    /\ step' = "run"
    /\ \E op \in select_operator(mutation_strategy) :
        /\ operator' = op
        /\ IF op = "splice" /\ splice_raises(seed_queue[selected_seed], seed_queue)
           THEN /\ pc' = "raise_splice_mutate"
                /\ UNCHANGED <<seed_queue, global_coverage, edge_to_seeds,
                               total_exec_time, exec_count, avg_exec_time, remaining,
                               status_code, trace_bits, current_input,
                               mutation_strategy, crashes_folder, now>>
           ELSE \E ci \in mutate(op, current_input, seed_queue[selected_seed], seed_queue),
                   result \in RunResults, exec_time \in FuzzTimes :
                LET status == result[1]
                    bits == result[2]
                IN
                /\ RunOutcome(status) = "crash" => Crashes(mutation_strategy) < MaxCrashes
                /\ current_input' = ci
                /\ status_code' = status
                /\ trace_bits' = bits
                /\ total_exec_time' = total_exec_time + exec_time
                /\ exec_count' = exec_count + 1
                /\ avg_exec_time' = <<total_exec_time', exec_count'>>
                /\ remaining' = remaining - 1
                /\ pc' = IF remaining' = 0 THEN "select" ELSE "fuzz"
                /\ CASE RunOutcome(status) = "timeout" ->
                          UNCHANGED <<seed_queue, global_coverage, edge_to_seeds,
                                      mutation_strategy, crashes_folder, now>>
                     [] RunOutcome(status) = "crash" ->
                          \E timestamp \in clock_readings(crashes_folder, now) :
                            /\ now' = timestamp
                            /\ crashes_folder' = crashes_folder \cup
                                 { crash_filename(timestamp,
                                                  seed_queue[selected_seed].path) }
                            /\ mutation_strategy' =
                                 update_rewards(mutation_strategy, op, 0, TRUE)
                            /\ UNCHANGED <<seed_queue, global_coverage, edge_to_seeds>>
                     [] OTHER ->
                          LET cc == check_coverage(string_at(bits), global_coverage)
                              seed_coverage == cc[2]
                              seed_id == Len(seed_queue)
                          IN  IF cc[1]
                              THEN /\ global_coverage' = merge(global_coverage, seed_coverage)
                                   /\ edge_to_seeds' =
                                        index_seed(edge_to_seeds, seed_coverage, seed_id)
                                   /\ seed_queue' = Append(seed_queue,
                                        Seed(<<"id", seed_id>>, seed_id, seed_coverage,
                                             exec_time, ci.size))
                                   /\ mutation_strategy' =
                                        update_rewards(mutation_strategy, op,
                                            Cardinality(seed_coverage \ global_coverage'),
                                            FALSE)
                                   /\ UNCHANGED <<crashes_folder, now>>
                              ELSE UNCHANGED <<seed_queue, global_coverage, edge_to_seeds,
                                               mutation_strategy, crashes_folder, now>>
    /\ UNCHANGED <<seed_files, i, seeds_used_in_cycle, cycle_seed_count, cycle_count,
                   selected_seed, new_cycle, power_schedule>>
    /\ UNCHANGED <<fn_args, fn_ret, main_vars>>

\* the remaining iterations of the for-loop when none of them finds a new
\* edge or crashes: every run exits normally in exec_time ticks and hits the
\* edges of the selected seed, and select_operator exploits
FuzzRestWithin(max_exec) ==
    /\ pc = "fuzz"
    /\ remaining > 0
    /\ exec_count + remaining <= max_exec
    /\ step' = "rest"
    /\ \E op \in {best_operator(mutation_strategy)}, exec_time \in FuzzTimes :
        /\ op = "splice" => ~ splice_raises(seed_queue[selected_seed], seed_queue)
        /\ \E ci \in mutate(op, current_input, seed_queue[selected_seed], seed_queue) :
            /\ operator' = op
            /\ current_input' = ci
            /\ status_code' = 0
            /\ trace_bits' = seed_queue[selected_seed].coverage
            /\ ~ check_coverage(string_at(trace_bits'), global_coverage)[1]
            /\ total_exec_time' = total_exec_time + remaining * exec_time
            /\ exec_count' = exec_count + remaining
            /\ avg_exec_time' = <<total_exec_time', exec_count'>>
    /\ remaining' = 0
    /\ pc' = "select"
    /\ UNCHANGED <<seed_files, i, seed_queue, global_coverage, edge_to_seeds,
                   seeds_used_in_cycle, cycle_seed_count, cycle_count, selected_seed,
                   new_cycle, power_schedule, mutation_strategy, crashes_folder, now>>
    /\ UNCHANGED <<fn_args, fn_ret, main_vars>>

FuzzOne == FuzzOneWithin(MaxExec)

FuzzRest == FuzzRestWithin(MaxExec)

Next == DryRunSeed \/ DryRunEnd \/ SelectSeed \/ FuzzOne \/ FuzzRest

Spec == Init /\ [][Next]_vars

\* the same session followed through two whole mutation loops and into a third
FuzzOneLong == FuzzOneWithin(MaxLongExec)

FuzzRestLong == FuzzRestWithin(MaxLongExec)

NextLong == DryRunSeed \/ DryRunEnd \/ SelectSeed \/ FuzzOneLong \/ FuzzRestLong

SpecLong == Init /\ [][NextLong]_vars

\* ------------------------------------------------------------ properties
QueueIndex == 1..Len(seed_queue)

Raised == pc \in {"raise_update_favored_seeds", "raise_select_next_seed",
                  "raise_splice_mutate"}

\* a seed admitted by the dry run, as opposed to one saved by the fuzz loop
FromCorpus(s) == s.path[1] = "corpus"

\* runs of the target made by the fuzz loop
FuzzRuns == exec_count - Cardinality({ k \in QueueIndex : FromCorpus(seed_queue[k]) })

\* the state right after a call of update_favored_seeds
AfterFavoredPass ==
    \/ step = "dry_end"
    \/ step = "select" /\ new_cycle /\ pc \in {"fuzz", "raise_update_favored_seeds"}

Covering(e) == { k \in QueueIndex : e \in seed_queue[k].coverage }

\* C1: the seed at position i of seed_queue has seed_id i, and no two seeds
\* of the queue share a seed_id.
SeedIdsDenseAndUnique ==
    /\ \A k \in QueueIndex : seed_queue[k].seed_id = k - 1
    /\ \A j, k \in QueueIndex :
         j # k => seed_queue[j].seed_id # seed_queue[k].seed_id

\* C2: for every seed s of the queue and every edge e of s.coverage, s.seed_id
\* is listed in edge_to_seeds[e].
SeedsAreIndexed ==
    \A k \in QueueIndex : \A e \in seed_queue[k].coverage :
        \E n \in 1..Len(edge_to_seeds[e]) :
            edge_to_seeds[e][n] = seed_queue[k].seed_id

\* C2: a seed saved by the fuzz loop shares an edge with an earlier seed
SeedsAreIndexedWitness ==
    \E j, k \in QueueIndex :
        /\ j < k
        /\ ~ FromCorpus(seed_queue[k])
        /\ seed_queue[j].coverage \cap seed_queue[k].coverage # {}

\* C3: once the dry run is over, global_coverage is exactly the union of the
\* coverage sets of the seeds in the queue.
GlobalCoverageIsUnion ==
    pc # "dry_run" =>
        global_coverage = UNION { seed_queue[k].coverage : k \in QueueIndex }

\* C3: a crash has been recorded and a seed with coverage has been saved in the
\* fuzz loop, after a dry run that admitted a seed with coverage
GlobalCoverageIsUnionWitness ==
    /\ pc = "fuzz"
    /\ crashes_folder # {}
    /\ \E j, k \in QueueIndex :
         /\ FromCorpus(seed_queue[j]) /\ seed_queue[j].coverage # {}
         /\ ~ FromCorpus(seed_queue[k]) /\ seed_queue[k].coverage # {}

\* C4: right after a favored pass, every edge with a covering seed has exactly
\* one favored covering seed, and it is the one of minimal
\* (exec_time * file_size, seed_id) among the seeds covering the edge.
ExactlyOneMinimalFavored ==
    AfterFavoredPass =>
        \A e \in Edges : Covering(e) # {} =>
            \E k \in Covering(e) :
                /\ seed_queue[k].favored
                /\ \A j \in Covering(e) \ {k} : ~ seed_queue[j].favored
                /\ \A j \in Covering(e) :
                     \/ get_valuation(seed_queue[k]) < get_valuation(seed_queue[j])
                     \/ /\ get_valuation(seed_queue[k]) = get_valuation(seed_queue[j])
                        /\ seed_queue[k].seed_id <= seed_queue[j].seed_id

\* C5: right after a favored pass, every edge covered by a seed of the queue is
\* covered by a seed whose favored flag is set.
EveryEdgeHasFavoredSeed ==
    AfterFavoredPass =>
        \A e \in Edges : Covering(e) # {} =>
            \E k \in Covering(e) : seed_queue[k].favored

\* C6: a call of select_next_seed signals a new cycle exactly when the used set
\* has reached the cycle size; it then leaves the used set holding only the id
\* it returns, and otherwise returns an id that was not in the used set and
\* adds it; nothing else changes the used set.
SchedulerCycles ==
    [][ /\ (step' = "select" /\ pc' \in {"fuzz", "raise_update_favored_seeds"}) =>
            LET id == seed_queue'[selected_seed'].seed_id IN
            /\ new_cycle' = (Cardinality(seeds_used_in_cycle) >= cycle_seed_count)
            /\ new_cycle' => seeds_used_in_cycle' = {id}
            /\ ~ new_cycle' => /\ id \notin seeds_used_in_cycle
                               /\ seeds_used_in_cycle' = seeds_used_in_cycle \cup {id}
        /\ step' \in {"run", "rest"} => seeds_used_in_cycle' = seeds_used_in_cycle
      ]_vars

\* C6: a new cycle has just been signalled over a queue that grew in the fuzz loop
SchedulerCyclesWitness ==
    /\ step = "select"
    /\ pc = "fuzz"
    /\ new_cycle
    /\ Len(seed_queue) >= 2
    /\ \E k \in QueueIndex : ~ FromCorpus(seed_queue[k])

\* C7: havoc_uses + splice_uses equals the number of fuzz-loop runs made so far.
UsesCountEveryRun ==
    mutation_strategy.havoc_uses + mutation_strategy.splice_uses = FuzzRuns

Rewards(ms, op) == IF op = "havoc" THEN ms.havoc_rewards ELSE ms.splice_rewards

\* C8: a run that saves a new seed adds to the reward counter of its operator
\* the number of its edges that were not in global_coverage before the run, and
\* no other run changes a reward counter.
RewardIsNewEdges ==
    [][ step' \in {"run", "rest"} =>
          \A op \in Operators :
              Rewards(mutation_strategy', op) =
                  Rewards(mutation_strategy, op) +
                  (IF op = operator' /\ Len(seed_queue') = Len(seed_queue) + 1
                   THEN Cardinality(trace_bits' \ global_coverage)
                   ELSE 0)
      ]_vars

\* C9: a run with status 9, in the dry run or in the fuzz loop, writes no crash
\* file, increments no crash counter and adds no seed to the queue.
TimeoutIsNotCrash ==
    [][ (step' \in {"run", "dry_seed"} /\ status_code' = 9) =>
            /\ crashes_folder' = crashes_folder
            /\ mutation_strategy'.havoc_crashes = mutation_strategy.havoc_crashes
            /\ mutation_strategy'.splice_crashes = mutation_strategy.splice_crashes
            /\ seed_queue' = seed_queue
      ]_vars

\* C9: a fuzz-loop run has just timed out
TimeoutIsNotCrashWitness ==
    step = "run" /\ status_code = 9 /\ ~ Raised /\ trace_bits \ global_coverage # {}

\* C10: a fuzz-loop run appends a seed iff it neither timed out nor crashed and
\* hit an edge outside global_coverage; the seed appended is the only one, is
\* saved as id_<seed_id> and makes global_coverage strictly larger; any other
\* run leaves the queue and global_coverage as they were.
InsertIffNewEdge ==
    [][ (step' \in {"run", "rest"} /\ pc' # "raise_splice_mutate") =>
            LET interesting == /\ status_code' # 9
                               /\ ~ check_crash(status_code')
                               /\ trace_bits' \ global_coverage # {}
                last == seed_queue'[Len(seed_queue')]
            IN  IF interesting
                THEN /\ Len(seed_queue') = Len(seed_queue) + 1
                     /\ SubSeq(seed_queue', 1, Len(seed_queue)) = seed_queue
                     /\ last.path = <<"id", last.seed_id>>
                     /\ last.coverage = trace_bits'
                     /\ global_coverage \subseteq global_coverage'
                     /\ global_coverage' # global_coverage
                ELSE /\ seed_queue' = seed_queue
                     /\ global_coverage' = global_coverage
      ]_vars

\* C10: a seed saved by the fuzz loop covers an edge no earlier seed covers and
\* an edge an earlier seed covers
InsertIffNewEdgeWitness ==
    /\ step = "run"
    /\ \E k \in QueueIndex :
         /\ ~ FromCorpus(seed_queue[k])
         /\ \E e \in seed_queue[k].coverage :
              \A j \in 1..(k - 1) : e \notin seed_queue[j].coverage
         /\ \E e \in seed_queue[k].coverage :
              \E j \in 1..(k - 1) : e \in seed_queue[j].coverage

\* C11: an iteration of the dry run appends its file to seed_queue iff the
\* replay's status is neither 9 nor a crash for check_crash; a file that is
\* skipped leaves the queue, global_coverage, edge_to_seeds and the two terms
\* of the execution-time average as they were.
DryRunAdmitsIffClean ==
    [][ step' = "dry_seed" =>
            LET clean == status_code' # 9 /\ ~ check_crash(status_code')
            IN  IF clean
                THEN /\ Len(seed_queue') = Len(seed_queue) + 1
                     /\ SubSeq(seed_queue', 1, Len(seed_queue)) = seed_queue
                     /\ seed_queue'[Len(seed_queue')].path = <<"corpus", i>>
                ELSE /\ seed_queue' = seed_queue
                     /\ global_coverage' = global_coverage
                     /\ edge_to_seeds' = edge_to_seeds
                     /\ total_exec_time' = total_exec_time
                     /\ exec_count' = exec_count
      ]_vars

\* C11: a corpus file has just been skipped although its replay hit an edge no
\* admitted seed covers
DryRunAdmitsIffCleanWitness ==
    /\ step = "dry_seed"
    /\ status_code # 0
    /\ Len(seed_queue) >= 1
    /\ trace_bits \ global_coverage # {}

\* C12: when the dry run ends with an empty queue it ends without error, and
\* the only step that follows is the first call of select_next_seed, which
\* returns no seed with new_cycle False and ends the fuzzing phase without a
\* mutation, a target run or an error.
NoSeedsEndsCleanly ==
    [][ /\ (pc = "dry_run" /\ pc' # "dry_run" /\ Len(seed_queue') = 0) =>
              pc' = "select"
        /\ (pc # "dry_run" /\ Len(seed_queue) = 0) =>
              /\ pc = "select"
              /\ pc' = "no_seeds"
              /\ selected_seed' = 0
              /\ ~ new_cycle'
              /\ cycle_count' = 0
              /\ exec_count' = 0
              /\ operator' = "none"
              /\ current_input' = current_input
              /\ mutation_strategy' = MutationStrategy
              /\ seed_queue' = <<>>
      ]_vars

\* C12: the fuzzing phase has ended for lack of seeds although the corpus had
\* files: the replay of each of them crashed or timed out
NoSeedsEndsCleanlyWitness ==
    /\ pc = "no_seeds"
    /\ seed_files >= 2
    /\ status_code # 0

\* ------------------------------------------- functions called on their own
\* run_fuzzing at rest, as its locals are initialised, with the control at label
Idle(label) ==
    /\ pc = label
    /\ step = "init"
    /\ seed_files = 0
    /\ i = 0
    /\ seed_queue = <<>>
    /\ global_coverage = {}
    /\ edge_to_seeds = [e \in Edges |-> <<>>]
    /\ seeds_used_in_cycle = {}
    /\ cycle_seed_count = 0
    /\ cycle_count = 0
    /\ total_exec_time = 0
    /\ exec_count = 0
    /\ avg_exec_time = <<0, 1>>
    /\ selected_seed = 0
    /\ new_cycle = FALSE
    /\ power_schedule = 0
    /\ remaining = 0
    /\ operator = "none"
    /\ status_code = 0
    /\ trace_bits = {}
    /\ current_input = [size |-> 0, origin |-> NoPath, by |-> "none"]
    /\ mutation_strategy = MutationStrategy
    /\ crashes_folder = {}
    /\ now = 0
    /\ read_bytes = 0
    /\ shm_segment = FALSE

\* check_crash(status_code) for any status
InitCheckCrash ==
    /\ Idle("call_check_crash")
    /\ fn_args \in 0..MaxStatus
    /\ fn_ret = <<>>

CallCheckCrash ==
    /\ pc = "call_check_crash"
    /\ fn_ret' = check_crash(fn_args)
    /\ pc' = "return_check_crash"
    /\ UNCHANGED <<fn_args, run_fuzzing_vars, main_vars>>

SpecCheckCrash == InitCheckCrash /\ [][CallCheckCrash]_vars

\* a & b on naturals, bit by bit
RECURSIVE BitAnd(_, _)
BitAnd(a, b) ==
    IF a = 0 \/ b = 0 THEN 0
    ELSE (a % 2) * (b % 2) + 2 * BitAnd(a \div 2, b \div 2)

\* C13: check_crash(status) is True iff status & 0x7F is one of 1, 2, 3, 4, 6,
\* 7, 8, 9, 11, 13, 14, 15, 24, 25, 31 or status & 0x80 is not zero; 139 is a
\* crash and 0 is not.
CheckCrashIffSignalOrCore ==
    pc = "return_check_crash" =>
        /\ fn_ret = (\/ BitAnd(fn_args, 127) \in
                          {1, 2, 3, 4, 6, 7, 8, 9, 11, 13, 14, 15, 24, 25, 31}
                     \/ BitAnd(fn_args, 128) # 0)
        /\ fn_args = 139 => fn_ret = TRUE
        /\ fn_args = 0 => fn_ret = FALSE

\* C13: check_crash has returned True for a status whose low seven bits are
\* no crash signal
CheckCrashIffSignalOrCoreWitness ==
    /\ pc = "return_check_crash"
    /\ fn_ret = TRUE
    /\ fn_args = 128 + 5

\* get_power_schedule(seed, avg_exec_time) for any seed and average: fn_args
\* is <<seed.exec_time, total_exec_time, exec_count, len(seed.coverage)>>
InitPowerSchedule ==
    /\ Idle("call_get_power_schedule")
    /\ fn_args \in (0..MaxTime) \X (0..MaxTotal) \X (1..MaxCount) \X (0..MaxCoverage)
    /\ fn_ret = <<>>

CallPowerSchedule ==
    /\ pc = "call_get_power_schedule"
    /\ fn_ret' = get_power_schedule(
                     Seed(<<"corpus", 1>>, 0, 1..fn_args[4], fn_args[1], 2),
                     <<fn_args[2], fn_args[3]>>)
    /\ pc' = "return_get_power_schedule"
    /\ UNCHANGED <<fn_args, run_fuzzing_vars, main_vars>>

SpecPowerSchedule == InitPowerSchedule /\ [][CallPowerSchedule]_vars

\* C14: for every seed and every average execution time, exec_time = 0, an
\* average of 0, empty coverage and large coverage included, get_power_schedule
\* returns an integer between 1 and 1000.
PowerScheduleInRange ==
    pc = "return_get_power_schedule" =>
        fn_ret \in Int /\ 1 <= fn_ret /\ fn_ret <= 1000

\* C14: get_power_schedule has returned for a fast seed whose score before
\* the cap is 100 * 3 * 3.4 = 1020
PowerScheduleInRangeWitness ==
    /\ pc = "return_get_power_schedule"
    /\ fn_args = <<1, 4, 1, 240>>
    /\ fn_ret = 1000

\* clamp(avg / exec_time, 0.1, 3.0) in exact arithmetic, as the fraction
\* <<numerator, denominator>>, for avg = total / count; 1 unless both are
\* positive
ExactTimeFactor(exec_time, total, count) ==
    IF exec_time > 0 /\ total > 0
    THEN IF 10 * total < count * exec_time THEN <<1, 10>>
         ELSE IF total > 3 * count * exec_time THEN <<3, 1>>
         ELSE <<total, count * exec_time>>
    ELSE <<1, 1>>

\* clamp(int(100 * tf * (1 + edges / 100)), 1, 1000) in exact arithmetic
ExactMutations(tf, edges) ==
    Max(Min((tf[1] * (100 + edges)) \div tf[2], 1000), 1)

\* C15: get_power_schedule returns clamp(int(100 * tf * (1 + |coverage| /
\* 100)), 1, 1000) with tf = clamp(avg / exec_time, 0.1, 3.0) when exec_time
\* and avg are both positive and tf = 1 otherwise; a seed with exec_time =
\* avg / 4 and 200 edges gets 900.
PowerScheduleIsFormula ==
    pc = "return_get_power_schedule" =>
        /\ fn_ret = ExactMutations(
                        ExactTimeFactor(fn_args[1], fn_args[2], fn_args[3]),
                        fn_args[4])
        /\ (fn_args[1] > 0 /\ 4 * fn_args[1] * fn_args[3] = fn_args[2]
                /\ fn_args[4] = 200) => fn_ret = 900

\* select_operator past the epsilon test, for any counters: fn_args is the
\* MutationStrategy
RewardTotals == 0..MaxRewards \cup {10, 500}
UseCounts == 0..MaxUses \cup {100}

InitSelectOperator ==
    /\ Idle("call_select_operator")
    /\ fn_args \in [havoc_rewards : RewardTotals, splice_rewards : RewardTotals,
                    havoc_uses : UseCounts, splice_uses : UseCounts,
                    havoc_crashes : 0..MaxOpCrashes,
                    splice_crashes : 0..MaxOpCrashes]
    /\ fn_ret = <<>>

CallSelectOperator ==
    /\ pc = "call_select_operator"
    /\ fn_ret' = best_operator(fn_args)
    /\ pc' = "return_select_operator"
    /\ UNCHANGED <<fn_args, run_fuzzing_vars, main_vars>>

SpecSelectOperator == InitSelectOperator /\ [][CallSelectOperator]_vars

\* numerator and denominator of the score (rewards + 10 * crashes) / max(1,
\* uses) of an operator
ScoreOf(ms, op) ==
    IF op = "havoc"
    THEN <<ms.havoc_rewards + 10 * ms.havoc_crashes, Max(1, ms.havoc_uses)>>
    ELSE <<ms.splice_rewards + 10 * ms.splice_crashes, Max(1, ms.splice_uses)>>

\* the fraction x is strictly larger than the fraction y
Larger(x, y) == x[1] * y[2] > y[1] * x[2]

\* C16: in the exploitation branch select_operator returns the operator with
\* the larger score (rewards + 10 * crashes) / max(1, uses); it returns splice
\* only when splice's score is strictly larger than havoc's; with
\* havoc_rewards = 500, havoc_uses = 100, splice_rewards = 10, splice_uses =
\* 100 it returns havoc.
ExploitPicksLargerScore ==
    pc = "return_select_operator" =>
        /\ fn_ret \in Operators
        /\ \A op \in Operators : ~ Larger(ScoreOf(fn_args, op), ScoreOf(fn_args, fn_ret))
        /\ fn_ret = "splice" <=>
               Larger(ScoreOf(fn_args, "splice"), ScoreOf(fn_args, "havoc"))
        /\ (/\ fn_args.havoc_rewards = 500 /\ fn_args.havoc_uses = 100
            /\ fn_args.splice_rewards = 10 /\ fn_args.splice_uses = 100
            /\ fn_args.havoc_crashes = 0 /\ fn_args.splice_crashes = 0)
               => fn_ret = "havoc"

\* C16: select_operator has returned havoc for two operators used a different
\* number of times whose scores 2 / 2 and 3 / 3 are equal
ExploitPicksLargerScoreWitness ==
    /\ pc = "return_select_operator"
    /\ fn_ret = "havoc"
    /\ fn_args.havoc_rewards = 2 /\ fn_args.havoc_uses = 2
    /\ fn_args.splice_rewards = 3 /\ fn_args.splice_uses = 3
    /\ fn_args.havoc_crashes = 0 /\ fn_args.splice_crashes = 0

\* check_coverage(trace_bits, global_coverage) called again and again on the
\* same map: fn_args holds the bytes of the map, the set passed as
\* global_coverage and the number of calls made
Bytes == {0, 1, 255}

InitCheckCoverage ==
    /\ Idle("call_check_coverage")
    /\ fn_args \in [raw_bitmap : [0..MaxIndex -> Bytes],
                    global_coverage : SUBSET (0..MaxIndex),
                    calls : {0}]
    /\ fn_ret = <<>>

CallCheckCoverage ==
    /\ pc \in {"call_check_coverage", "return_check_coverage"}
    /\ fn_args.calls < MaxCalls
    /\ fn_ret' = check_coverage(fn_args.raw_bitmap, fn_args.global_coverage)
    /\ fn_args' = [fn_args EXCEPT !.calls = @ + 1]
    /\ pc' = "return_check_coverage"
    /\ UNCHANGED <<run_fuzzing_vars, main_vars>>

SpecCheckCoverage == InitCheckCoverage /\ [][CallCheckCoverage]_vars

\* C19: a call of check_coverage leaves global_coverage as it was; its second
\* result is exactly the set of indices of the non-zero bytes of the map; its
\* first result is True iff that set has an edge outside global_coverage; and
\* so for every call of a series on the same map.
CheckCoverageClassifies ==
    [][ pc' = "return_check_coverage" =>
          /\ fn_args'.global_coverage = fn_args.global_coverage
          /\ fn_ret'[2] \subseteq 0..MaxIndex
          /\ \A idx \in 0..MaxIndex :
                 idx \in fn_ret'[2] <=> fn_args.raw_bitmap[idx] > 0
          /\ fn_ret'[1] = (\E e \in fn_ret'[2] : e \notin fn_args.global_coverage) ]_vars

\* C19: the second call on a map with one byte of 255 and one of 1, of which
\* only the first edge is in global_coverage, has returned
CheckCoverageClassifiesWitness ==
    /\ pc = "return_check_coverage"
    /\ fn_args.calls = 2
    /\ fn_args.raw_bitmap = [idx \in 0..MaxIndex |->
                                IF idx = 0 THEN 255 ELSE IF idx = 1 THEN 1 ELSE 0]
    /\ fn_args.global_coverage = {0}
    /\ fn_ret = <<TRUE, {0, 1}>>

\* SpliceMutator.mutate(seed, seed_queue) for a queue of one or two seeds
\* whose files have the lengths fn_args, seed being the first; fn_ret is the
\* content of current_input afterwards
QueueOf(sizes) ==
    [k \in 1..Len(sizes) |-> Seed(<<"corpus", k - 1>>, k - 1, {}, 1, sizes[k])]

InitSpliceMutate ==
    /\ Idle("call_splice_mutate")
    /\ fn_args \in [1..1 -> 0..MaxSize] \cup [1..2 -> 0..MaxSize]
    /\ fn_ret = <<>>

CallSpliceMutate ==
    /\ pc = "call_splice_mutate"
    /\ fn_ret' \in splice_mutate(current_input, QueueOf(fn_args)[1], QueueOf(fn_args))
    /\ pc' = "return_splice_mutate"
    /\ UNCHANGED <<fn_args, run_fuzzing_vars, main_vars>>

SpecSpliceMutate == InitSpliceMutate /\ [][CallSpliceMutate]_vars

\* the call took the splice path: two seeds in the queue, both files at least
\* 4 bytes long
SplicePath == Len(fn_args) >= 2 /\ fn_args[1] >= 4 /\ fn_args[2] >= 4

\* C20 as stated: whenever SpliceMutator.mutate takes the splice path, the
\* final content of current_input is a havoc mutation of the current seed's
\* own bytes and never the spliced buffer.
SpliceAlwaysDiscarded ==
    (pc = "return_splice_mutate" /\ SplicePath) =>
        fn_ret.by = "havoc" /\ fn_ret.origin = <<"corpus", 0>>

\* C20, amended: on the splice path the final content of current_input is a
\* havoc mutation of the current seed's own bytes when that seed is at least 8
\* bytes long, and the spliced buffer a[:p1] + b[p2:] when it is 4 to 7 bytes
\* long.
SpliceDiscardedFromEightBytes ==
    (pc = "return_splice_mutate" /\ SplicePath) =>
        IF fn_args[1] >= 8
        THEN fn_ret.by = "havoc" /\ fn_ret.origin = <<"corpus", 0>>
        ELSE /\ fn_ret.by = "splice"
             /\ \E p1 \in 1..(fn_args[1] - 2), p2 \in 1..(fn_args[2] - 2) :
                    fn_ret.size = p1 + (fn_args[2] - p2)

\* C20: the splice of a seed of 5 bytes with one of 9 bytes is what
\* current_input holds after the call
SpliceDiscardedFromEightBytesWitness ==
    /\ pc = "return_splice_mutate"
    /\ fn_args = <<5, 9>>
    /\ fn_ret.by = "splice"
    /\ fn_ret.size = 3 + (9 - 1)

\* ------------------------------------------------------------------ main
\* the session from the first statement of main(): the segment, the
\* handshake, the dry run and the first selection, with Ctrl+C at any time
InitMain ==
    /\ Idle("main")
    /\ fn_args = <<>>
    /\ fn_ret = <<>>

\* setup_shm: shmget, then shmat, each leaving through sys.exit when it fails;
\* then clear_shm, the SIGINT handler, the pipes and the fork
SetupShm ==
    /\ pc = "main"
    /\ \E outcome \in {"ok", "shmget_failed", "shmat_failed"} :
        /\ shm_segment' = (outcome # "shmget_failed")
        /\ pc' = IF outcome = "ok" THEN "handshake" ELSE "sys_exit"
    /\ UNCHANGED <<read_bytes, fn_args, fn_ret, run_fuzzing_vars>>

\* os.read(st_read_fd, 4): a message is printed when 4 bytes came; either
\* way run_fuzzing goes on to list the corpus
Handshake ==
    /\ pc = "handshake"
    /\ \E n \in 0..4, files \in 0..MaxFiles :
        /\ read_bytes' = n
        /\ seed_files' = files
    /\ pc' = "dry_run"
    /\ UNCHANGED <<step, i, seed_queue, global_coverage, edge_to_seeds,
                   seeds_used_in_cycle, cycle_seed_count, cycle_count,
                   total_exec_time, exec_count, avg_exec_time, selected_seed,
                   new_cycle, power_schedule, remaining, operator, status_code,
                   trace_bits, current_input, mutation_strategy, crashes_folder,
                   now, shm_segment, fn_args, fn_ret>>

\* signal_handler: os._exit(0), once main() has installed it
Interrupt ==
    /\ pc \in {"handshake", "dry_run", "select", "fuzz"}
    /\ pc' = "os_exit"
    /\ UNCHANGED <<fn_args, fn_ret, run_fuzzing_vars, main_vars>>

NextMain ==
    SetupShm \/ Handshake \/ DryRunSeed \/ DryRunEnd \/ SelectSeed \/ Interrupt

SpecMain == InitMain /\ [][NextMain]_vars

\* C17: a handshake read of fewer than 4 bytes is fatal: the session aborts,
\* and neither the dry run nor any fuzz-loop run is started.
ShortHandshakeIsFatal ==
    (pc \notin {"main", "sys_exit", "handshake"} /\ read_bytes < 4) =>
        /\ pc \notin {"dry_run", "select", "fuzz"}
        /\ i = 0
        /\ exec_count = 0

\* the fuzzer process has ended
Exited == pc \in {"sys_exit", "os_exit", "no_seeds"} \/ Raised

\* C18: on every exit path of the fuzzer (Ctrl+C, the 'no seeds' exit, a
\* fatal error) the shared-memory segment made by setup_shm no longer exists.
ShmDestroyedOnExit == Exited => ~ shm_segment

\* a run of the fuzz loop has just been made
FuzzRun == step' \in {"run", "rest"} /\ pc' # "raise_splice_mutate"

\* C21: in every fuzz-loop iteration the content of current_input the target
\* executes was written by the mutation engine in that iteration from the
\* bytes of the selected seed, never left over from an earlier iteration, an
\* earlier seed or the dry run.
InputIsFreshMutation ==
    [][ FuzzRun =>
          /\ current_input'.by \in Operators
          /\ current_input'.origin = seed_queue[selected_seed].path ]_vars

\* the favored flags of a queue, by position
Flags(q) == [k \in 1..Len(q) |-> q[k].favored]

\* the index as it was when the queue held n seeds: later entries carry ids
\* from n on
IndexBelow(e2s, n) ==
    [e \in Edges |-> SelectSeq(e2s[e], LAMBDA id : id < n)]

\* the flags a pass made when the queue held its first n seeds leaves on q:
\* seeds saved since are unflagged
FlagsOfPass(q, e2s, n) ==
    [k \in 1..Len(q) |->
        IF k <= n
        THEN update_favored_seeds(SubSeq(q, 1, n), IndexBelow(e2s, n))[k].favored
        ELSE FALSE]

\* select_next_seed has just returned a seed and the caller has gone on
Selected == step' = "select" /\ pc' = "fuzz"

\* C22 as stated: every seed select_next_seed chooses, the first of a new
\* cycle included, is chosen using favored flags made by an
\* update_favored_seeds pass over every seed in the queue when that cycle
\* began.
FavoredPassPrecedesSelection ==
    [][ Selected =>
          Flags(seed_queue) =
              FlagsOfPass(seed_queue, edge_to_seeds, cycle_seed_count') ]_vars

\* C22, amended: the favored recomputation of a new cycle follows the choice
\* of that cycle's first seed. Every seed is chosen using the flags of the
\* pass over the seeds present when the cycle of the call before began, which
\* for the first seed of a new cycle is the cycle just ended; the pass over
\* every seed present at the new cycle's start is made right after that
\* choice.
FavoredPassFollowsFirstSelection ==
    [][ Selected =>
          /\ Flags(seed_queue) =
                 FlagsOfPass(seed_queue, edge_to_seeds, cycle_seed_count)
          /\ new_cycle' =>
                 Flags(seed_queue') =
                     FlagsOfPass(seed_queue, edge_to_seeds, Len(seed_queue)) ]_vars

\* C22: a new cycle has begun with a seed saved during the cycle before, and
\* the pass after the choice of its first seed has flagged that seed
FavoredPassFollowsFirstSelectionWitness ==
    /\ step = "select"
    /\ pc = "fuzz"
    /\ new_cycle
    /\ \E k \in 1..Len(seed_queue) :
           seed_queue[k].path[1] = "id" /\ seed_queue[k].favored

\* the bandit counters of an operator: <<uses, crashes, rewards>>
Counters(ms, op) ==
    IF op = "havoc" THEN <<ms.havoc_uses, ms.havoc_crashes, ms.havoc_rewards>>
    ELSE <<ms.splice_uses, ms.splice_crashes, ms.splice_rewards>>

\* C23: a fuzz-loop run that crashes or times out leaves seed_queue (favored
\* flags included), edge_to_seeds and global_coverage unchanged; a crash adds
\* 1 to the uses and to the crashes of the operator used and nothing to its
\* reward, leaves the other operator's counters alone, adds one file to
\* crashes_folder, and the loop goes on with the next mutation.
CrashAndTimeoutFrame ==
    [][ (step' = "run" /\ pc' # "raise_splice_mutate"
            /\ (status_code' = 9 \/ check_crash(status_code'))) =>
          /\ seed_queue' = seed_queue
          /\ edge_to_seeds' = edge_to_seeds
          /\ global_coverage' = global_coverage
          /\ pc' \in {"fuzz", "select"}
          /\ remaining' = remaining - 1
          /\ status_code' # 9 =>
               /\ \A op \in Operators :
                      Counters(mutation_strategy', op) =
                          IF op = operator'
                          THEN <<Counters(mutation_strategy, op)[1] + 1,
                                 Counters(mutation_strategy, op)[2] + 1,
                                 Counters(mutation_strategy, op)[3]>>
                          ELSE Counters(mutation_strategy, op)
               /\ crashes_folder \subseteq crashes_folder'
               /\ Cardinality(crashes_folder') = Cardinality(crashes_folder) + 1
      ]_vars

\* C26: a crash file is never overwritten by a later crash: the number of
\* files in crashes_folder is the number of crashing fuzz-loop runs, also when
\* several crashes come from the same seed within one second.
EveryCrashKeepsItsFile ==
    Cardinality(crashes_folder) = Crashes(mutation_strategy)

\* C25: every seed id stored in edge_to_seeds[e] is a valid position of
\* seed_queue, the seed at that position has that seed_id and has e in its
\* coverage; so update_favored_seeds never indexes outside the queue.
IndexEntriesAreSeeds ==
    /\ \A e \in Edges : \A k \in 1..Len(edge_to_seeds[e]) :
           /\ edge_to_seeds[e][k] < Len(seed_queue)
           /\ seed_queue[edge_to_seeds[e][k] + 1].seed_id = edge_to_seeds[e][k]
           /\ e \in seed_queue[edge_to_seeds[e][k] + 1].coverage
    /\ pc # "raise_update_favored_seeds"

\* C24: whenever select_next_seed is called with a non-empty queue, the set
\* of unused seeds is non-empty at the point of selection: the call returns a
\* seed whose id was not in the used set and never fails on an empty choice.
SelectionNeverEmpty ==
    [][ (pc = "select" /\ Len(seed_queue) > 0) =>
          /\ pc' # "raise_select_next_seed"
          /\ selected_seed' \in 1..Len(seed_queue)
          /\ seed_queue[selected_seed'].seed_id \notin
                 (IF new_cycle' THEN {} ELSE seeds_used_in_cycle) ]_vars

====
